---------------------------- MODULE Spec2Model ----------------------------
(***************************************************************************)
(* A model of create-regolith-addon (src/src/bin.ts, src/src/log.ts).      *)
(*                                                                         *)
(* The command prompts for seven answers (inquirer), then runs             *)
(* initProject(promptResponses, options) inside a try/catch that logs an   *)
(* error and exits with status 1 when initProject throws.                  *)
(*                                                                         *)
(* Strings the code inspects character by character (the project name,     *)
(* the target version, every path) are sequences of atoms.  An atom is a   *)
(* single character, or one of the literal file names of the template      *)
(* ("packs", "config.json", ...), which contain no separator and are never *)
(* taken apart.  Paths follow path.posix.                                  *)
(***************************************************************************)
EXTENDS Integers, Sequences, FiniteSets, TLC

-----------------------------------------------------------------------------
(* Generic sequence helpers (String.prototype methods used by the code).   *)

\* The element of a one-element set.  Only({e(x) : x \in {v}}) is e(v) with
\* v computed once, whatever the number of its uses in e.
Only(S) == CHOOSE r \in S : TRUE

\* s.startsWith(p)
StartsWith(s, p) ==
    /\ Len(p) <= Len(s)
    /\ SubSeq(s, 1, Len(p)) = p

\* s.endsWith(p)
EndsWith(s, p) ==
    /\ Len(p) <= Len(s)
    /\ SubSeq(s, Len(s) - Len(p) + 1, Len(s)) = p

\* p occurs in s at position i
OccursAt(s, p, i) ==
    /\ i >= 1
    /\ i + Len(p) - 1 <= Len(s)
    /\ SubSeq(s, i, i + Len(p) - 1) = p

\* an unanchored regular-expression alternative that is a literal: p occurs somewhere in s
Contains(s, p) == \E i \in 1..Len(s) : OccursAt(s, p, i)

\* s.replace(/p/g, rep) for a literal pattern p: every non-overlapping
\* occurrence of the whole sequence p, scanning left to right, becomes rep
RECURSIVE ReplaceAllFrom(_, _, _, _)
ReplaceAllFrom(s, p, rep, i) ==
    IF i > Len(s) THEN <<>>
    ELSE IF OccursAt(s, p, i)
         THEN rep \o ReplaceAllFrom(s, p, rep, i + Len(p))
         ELSE <<s[i]>> \o ReplaceAllFrom(s, p, rep, i + 1)

\* s.split(sep) for a one-character separator: always at least one component
RECURSIVE SplitFrom(_, _, _, _)
SplitFrom(s, sep, i, cur) ==
    IF i > Len(s) THEN <<cur>>
    ELSE IF s[i] = sep
         THEN <<cur>> \o SplitFrom(s, sep, i + 1, <<>>)
         ELSE SplitFrom(s, sep, i + 1, Append(cur, s[i]))

Split(s, sep) == SplitFrom(s, sep, 1, <<>>)

\* parts.join(sep)
RECURSIVE JoinWith(_, _)
JoinWith(parts, sep) ==
    IF Len(parts) = 0 THEN <<>>
    ELSE IF Len(parts) = 1 THEN parts[1]
    ELSE parts[1] \o sep \o JoinWith(Tail(parts), sep)

-----------------------------------------------------------------------------
(* The base directory name and the reserved-name test of initProject.      *)

\* The regular expression /\/\\:\*\?"<>\|\./g of bin.ts:31 has no character
\* class: it is the concatenation of ten escaped characters, so it matches
\* only this ten-character sequence.
IllegalCharsPattern == <<"/", "\\", ":", "*", "?", "\"", "<", ">", "|", ".">>

\* promptResponses.projectName.replace(/\/\\:\*\?"<>\|\./g, "-")
basePathOf(projectName) == ReplaceAllFrom(projectName, IllegalCharsPattern, <<"-">>, 1)

DigitChars1to9 == {"1", "2", "3", "4", "5", "6", "7", "8", "9"}

\* /^(CON)|(PRN)|(AUX)|(NUL)|(COM[1-9])|(LPT[1-9])$/g.test(basePath).
\* Alternation binds weaker than the anchors: ^ belongs to the first
\* alternative only and $ to the last only; there is no i flag.  The literal
\* is evaluated afresh on each call, so lastIndex is 0.
isReservedName(basePath) ==
    \/ StartsWith(basePath, <<"C", "O", "N">>)
    \/ Contains(basePath, <<"P", "R", "N">>)
    \/ Contains(basePath, <<"A", "U", "X">>)
    \/ Contains(basePath, <<"N", "U", "L">>)
    \/ \E d \in DigitChars1to9 : Contains(basePath, <<"C", "O", "M", d>>)
    \/ \E d \in DigitChars1to9 : EndsWith(basePath, <<"L", "P", "T", d>>)

-----------------------------------------------------------------------------
(* The prompt validators.                                                  *)

\* validate of the projectName prompt: "true" for true, or the message shown
validateProjectName(input) ==
    IF Len(input) < 1 THEN "Must be at least one character"
    ELSE IF EndsWith(input, <<" ">>) \/ EndsWith(input, <<".">>)
         THEN "Cannot end with space or '.'"
         ELSE "true"

DecimalDigits == {"0", "1", "2", "3", "4", "5", "6", "7", "8", "9"}
HexDigits == DecimalDigits \cup {"a", "b", "c", "d", "e", "f", "A", "B", "C", "D", "E", "F"}
OctalDigits == {"0", "1", "2", "3", "4", "5", "6", "7"}
BinaryDigits == {"0", "1"}

AllIn(s, chars) == \A i \in 1..Len(s) : s[i] \in chars

\* StrWhiteSpace is trimmed from both ends before a string is read as a number
RECURSIVE TrimLeft(_)
TrimLeft(s) == IF Len(s) > 0 /\ s[1] = " " THEN TrimLeft(Tail(s)) ELSE s

RECURSIVE TrimRight(_)
TrimRight(s) ==
    IF Len(s) > 0 /\ s[Len(s)] = " " THEN TrimRight(SubSeq(s, 1, Len(s) - 1)) ELSE s

Trim(s) == TrimRight(TrimLeft(s))

\* DecimalDigits ExponentPart?  (no "." can occur: the components were split on it)
IsUnsignedDecimal(s) ==
    \/ Len(s) > 0 /\ AllIn(s, DecimalDigits)
    \/ \E k \in 2..Len(s) :
          /\ s[k] \in {"e", "E"}
          /\ AllIn(SubSeq(s, 1, k - 1), DecimalDigits)
          /\ LET rest == SubSeq(s, k + 1, Len(s))
                 digs == IF Len(rest) > 0 /\ rest[1] \in {"+", "-"} THEN Tail(rest) ELSE rest
             IN  Len(digs) > 0 /\ AllIn(digs, DecimalDigits)

InfinityLiteral == <<"I", "n", "f", "i", "n", "i", "t", "y">>

\* 0x.., 0o.., 0b.. literals take no sign
IsNonDecimalLiteral(s) ==
    /\ Len(s) >= 3
    /\ s[1] = "0"
    /\ LET digs == SubSeq(s, 3, Len(s))
       IN  \/ s[2] \in {"x", "X"} /\ AllIn(digs, HexDigits)
           \/ s[2] \in {"o", "O"} /\ AllIn(digs, OctalDigits)
           \/ s[2] \in {"b", "B"} /\ AllIn(digs, BinaryDigits)

\* isNaN(Number(v)): Number applies StringToNumber, which yields NaN exactly
\* when the trimmed string is not empty and is not a StringNumericLiteral
NumberIsNaN(v) ==
    LET t == Trim(v)
        u == IF Len(t) > 0 /\ t[1] \in {"+", "-"} THEN Tail(t) ELSE t
    IN  ~ \/ Len(t) = 0
          \/ IsUnsignedDecimal(u)
          \/ u = InfinityLiteral
          \/ IsNonDecimalLiteral(t)

\* validate of the targetVersion prompt: "true" for true, or the message shown
\* (the message is written here without its backquotes)
validateTargetVersion(input) ==
    LET s == Split(input, ".")
    IN  IF \/ (Len(s) # 3 /\ Len(s) # 4)
           \/ \E i \in 1..Len(s) : (Len(s[i]) = 0 \/ NumberIsNaN(s[i]))
        THEN "Must be in x.y.z or x.y.z.t format where x, y, z, and t are integers"
        ELSE "true"


DigitValue(c) ==
    CASE c = "0" -> 0 [] c = "1" -> 1 [] c = "2" -> 2 [] c = "3" -> 3
      [] c = "4" -> 4 [] c = "5" -> 5 [] c = "6" -> 6 [] c = "7" -> 7
      [] c = "8" -> 8 [] c = "9" -> 9
      [] c \in {"a", "A"} -> 10 [] c \in {"b", "B"} -> 11 [] c \in {"c", "C"} -> 12
      [] c \in {"d", "D"} -> 13 [] c \in {"e", "E"} -> 14 [] c \in {"f", "F"} -> 15

\* the value of a digit string in the given radix
RECURSIVE DigitsValue(_, _)
DigitsValue(s, radix) ==
    IF Len(s) = 0 THEN 0
    ELSE DigitsValue(SubSeq(s, 1, Len(s) - 1), radix) * radix + DigitValue(s[Len(s)])

\* Number(v).  A finite value is <<"num", sign, m, e>>, standing for
\* sign * m * 10^e (a sign of -1 with m = 0 is JavaScript's -0).
Number(v) ==
    LET t == Trim(v)
        signed == Len(t) > 0 /\ t[1] \in {"+", "-"}
        sign == IF Len(t) > 0 /\ t[1] = "-" THEN -1 ELSE 1
        u == IF signed THEN Tail(t) ELSE t
        epos == IF \E k \in 1..Len(u) : u[k] \in {"e", "E"}
                THEN CHOOSE k \in 1..Len(u) : u[k] \in {"e", "E"}
                ELSE 0
    IN  IF NumberIsNaN(v) THEN <<"NaN">>
        ELSE IF Len(t) = 0 THEN <<"num", 1, 0, 0>>
        ELSE IF u = InfinityLiteral THEN <<"Infinity", sign>>
        ELSE IF IsNonDecimalLiteral(t)
             THEN <<"num", 1,
                    DigitsValue(SubSeq(t, 3, Len(t)),
                                IF t[2] \in {"x", "X"} THEN 16
                                ELSE IF t[2] \in {"o", "O"} THEN 8 ELSE 2),
                    0>>
        ELSE IF epos = 0 THEN <<"num", sign, DigitsValue(u, 10), 0>>
        ELSE LET rest == SubSeq(u, epos + 1, Len(u))
                 esign == IF rest[1] = "-" THEN -1 ELSE 1
                 edigs == IF rest[1] \in {"+", "-"} THEN Tail(rest) ELSE rest
             IN  <<"num", sign, DigitsValue(SubSeq(u, 1, epos - 1), 10),
                   esign * DigitsValue(edigs, 10)>>

-----------------------------------------------------------------------------
(* Paths: path.join of path.posix.                                         *)

Sep == "/"
Dot == <<".">>
DotDot == <<".", ".">>

\* normalizeString of path.posix over the "/"-separated segments: empty and
\* "." segments are dropped, ".." removes the segment before it, or is kept
\* when there is none to remove and the path is relative
RECURSIVE NormalizeSegments(_, _, _)
NormalizeSegments(segs, res, allowAboveRoot) ==
    IF Len(segs) = 0 THEN res
    ELSE LET seg == Head(segs)
             res2 == IF seg = <<>> \/ seg = Dot THEN res
                     ELSE IF seg = DotDot
                          THEN IF Len(res) > 0 /\ res[Len(res)] # DotDot
                               THEN SubSeq(res, 1, Len(res) - 1)
                               ELSE IF allowAboveRoot THEN Append(res, DotDot) ELSE res
                          ELSE Append(res, seg)
         IN  Only({NormalizeSegments(Tail(segs), r, allowAboveRoot) : r \in {res2}})

\* path.normalize(p)
Normalize(p) ==
    IF Len(p) = 0 THEN Dot
    ELSE LET isAbsolute == p[1] = Sep
             trailingSeparator == p[Len(p)] = Sep
             body == JoinWith(NormalizeSegments(Split(p, Sep), <<>>, ~isAbsolute), <<Sep>>)
             body2 == IF Len(body) = 0 /\ ~isAbsolute THEN Dot ELSE body
             body3 == IF Len(body2) > 0 /\ trailingSeparator THEN Append(body2, Sep) ELSE body2
         IN  IF isAbsolute THEN <<Sep>> \o body3 ELSE body3

\* path.join(a, name) for a non-empty name: empty arguments are skipped
PathJoin(a, name) ==
    IF Len(a) = 0 THEN Normalize(name) ELSE Normalize(a \o <<Sep>> \o name)

-----------------------------------------------------------------------------
(* The file system seen through fs.mkdirSync and fs.writeFileSync.         *)
(* A file system is [dirs, files]: dirs is the set of directories and      *)
(* files the set of <<location, data>> pairs, a location being the list of *)
(* segments from the root.  The root <<>> and the working directory Cwd    *)
(* are directories of every file system.                                   *)

Cwd == << <<"w">> >>

ParentOf(loc) == IF Len(loc) = 0 THEN loc ELSE SubSeq(loc, 1, Len(loc) - 1)

FileLocations(fsys) == {f[1] : f \in fsys.files}

\* the non-empty segments of a path
Components(p) == SelectSeq(Split(p, Sep), LAMBDA seg : seg # <<>>)

\* Path resolution of every component but the last: each must name an
\* existing directory.  The result is <<"ok", location>> or <<code>>.
RECURSIVE Walk(_, _, _)
Walk(fsys, cur, comps) ==
    IF Len(comps) = 0 THEN <<"ok", cur>>
    ELSE LET c == Head(comps)
             next == IF c = Dot THEN cur
                     ELSE IF c = DotDot THEN ParentOf(cur)
                     ELSE Append(cur, c)
         IN  Only({ IF nx \in fsys.dirs THEN Walk(fsys, nx, Tail(comps))
                    ELSE IF nx \in FileLocations(fsys) THEN <<"ENOTDIR">>
                    ELSE <<"ENOENT">> : nx \in {next} })

\* The location a path names for creation: <<"ok", location>>, <<"EEXIST">>
\* when it names an existing directory through ".", ".." or the root, or the
\* error of the walk.
Locate(fsys, p) ==
    LET comps == Components(p)
        start == IF Len(p) > 0 /\ p[1] = Sep THEN <<>> ELSE Cwd
    IN  IF Len(p) = 0 THEN <<"ENOENT">>
        ELSE IF Len(comps) = 0 THEN <<"EEXIST">>
        ELSE LET last == comps[Len(comps)]
             IN  Only({ IF w[1] # "ok" THEN w
                        ELSE IF last = Dot \/ last = DotDot THEN <<"EEXIST">>
                        ELSE <<"ok", Append(w[2], last)>> :
                        w \in {Walk(fsys, start, SubSeq(comps, 1, Len(comps) - 1))} })

\* fs.mkdirSync(path_): <<"ok", file system after>> or <<code>> (thrown)
mkdirSync(fsys, p) ==
    Only({ IF l[1] # "ok" THEN l
           ELSE IF l[2] \in fsys.dirs \/ l[2] \in FileLocations(fsys) THEN <<"EEXIST">>
           ELSE <<"ok", [fsys EXCEPT !.dirs = @ \cup {l[2]}]>> :
           l \in {Locate(fsys, p)} })

\* fs.writeFileSync(path_, data): creates or replaces the file
writeFileSync(fsys, p, data) ==
    Only({ IF l[1] = "EEXIST" THEN <<"EISDIR">>
           ELSE IF l[1] # "ok" THEN l
           ELSE IF l[2] \in fsys.dirs THEN <<"EISDIR">>
           ELSE <<"ok", [fsys EXCEPT !.files =
                            {f \in @ : f[1] # l[2]} \cup {<<l[2], data>>}]>> :
           l \in {Locate(fsys, p)} })

-----------------------------------------------------------------------------
(* The answers.  promptResponses holds a key only once its prompt was      *)
(* answered: includeLocalFilters and includeEslint stay undefined when     *)
(* their prompt is skipped.                                                *)

\* promptResponses.key used as a condition: undefined is falsy
Truthy(promptResponses, key) ==
    key \in DOMAIN promptResponses /\ promptResponses[key] = TRUE

useScriptingOf(promptResponses) == promptResponses.scriptingLanguage # "none"
useTsOf(promptResponses) == promptResponses.scriptingLanguage = "ts"
indexScriptNameOf(promptResponses) ==
    IF useTsOf(promptResponses) THEN "index.ts" ELSE "index.js"

targetVersionStrSplitOf(promptResponses) == Split(promptResponses.targetVersion, ".")
isTargetingPreviewOf(promptResponses) == Len(targetVersionStrSplitOf(promptResponses)) > 3

minEngineVersionOf(promptResponses) ==
    LET sp == targetVersionStrSplitOf(promptResponses)
        kept == IF isTargetingPreviewOf(promptResponses)
                THEN SubSeq(sp, 1, Len(sp) - 1) ELSE sp
    IN  [i \in 1..Len(kept) |-> Number(kept[i])]

-----------------------------------------------------------------------------
(* The documents initProject writes.  A JSON object whose keys depend on   *)
(* the answers is the sequence of its <<key, value>> pairs in insertion    *)
(* order; a string built from parts is the sequence of its parts.          *)

GitIgnoreData == [gitignore |-> "/build\n/.regolith\nnode_modules"]

filterDefinitionsOf(promptResponses) ==
    IF useScriptingOf(promptResponses)
    THEN << <<"build_scripts",
              [runWith |-> "shell",
               command |-> <<"npx esbuild BP/scripts/", indexScriptNameOf(promptResponses),
                             " --outfile=BP/scripts/__bundle.js --bundle --format=esm --external:@minecraft/common --external:@minecraft/debug-utilities --external:@minecraft/server --external:@minecraft/server-*">>]>>,
            <<"prod_finish_up_build_scripts",
              [runWith |-> "shell",
               command |-> <<"npx terser BP/scripts/__bundle.js --module -cmo BP/scripts/__bundle.js; Remove-Item BP/scripts/* -Recurse -Exclude __bundle.js">>]>> >>
         \o (IF Truthy(promptResponses, "includeLocalFilters")
             THEN << <<"example_filter",
                       IF useTsOf(promptResponses)
                       THEN [runWith |-> "shell",
                             command |-> <<"npm run tsx filters/example_filter">>]
                       ELSE [runWith |-> "nodejs",
                             script |-> "filters/example_filter/index.js"]>> >>
             ELSE <<>>)
    ELSE <<>>

\* a slip: the build step is listed whether or not scripting is used
defaultProfileFiltersOf_Always(responses) == <<[filter |-> "build_scripts"]>>

defaultProfileFiltersOf(promptResponses) ==
    IF useScriptingOf(promptResponses) THEN <<[filter |-> "build_scripts"]>> ELSE <<>>

prodProfileFiltersOf(promptResponses) ==
    <<[profile |-> "default"]>>
    \o (IF useScriptingOf(promptResponses)
        THEN <<[filter |-> "prod_finish_up_build_scripts"]>> ELSE <<>>)

ConfigJsonData(promptResponses, basePath) ==
    [configJson |->
       [schema |-> "https://raw.githubusercontent.com/Bedrock-OSS/regolith-schemas/main/config/v1.2.json",
        author |-> "Your name",
        name |-> basePath,
        packs |-> << <<"behaviorPack", "./packs/BP">> >>
                  \o (IF promptResponses.includeRp
                      THEN << <<"resourcePack", "./packs/RP">> >> ELSE <<>>),
        regolith |->
          [dataPath |-> "./packs/data",
           filterDefinitions |-> filterDefinitionsOf(promptResponses),
           profiles |->
             [default |->
                [export |-> [target |-> IF isTargetingPreviewOf(promptResponses)
                                        THEN "preview" ELSE "development"],
                 filters |-> defaultProfileFiltersOf(promptResponses)],
              prod |->
                [export |-> [target |-> "local"],
                 filters |-> prodProfileFiltersOf(promptResponses)]]]]]

packageDevDependenciesOf(promptResponses) ==
    (IF useScriptingOf(promptResponses)
     THEN << <<"esbuild", "^0.20.2">>, <<"terser", "^5.30.3">> >> ELSE <<>>)
    \o (IF Truthy(promptResponses, "includeEslint")
        THEN << <<"eslint", "^8.57.0">> >>
             \o (IF useTsOf(promptResponses)
                 THEN << <<"@typescript-eslint/eslint-plugin", "^7.3.1">>,
                         <<"@typescript-eslint/parser", "^7.3.1">> >>
                 ELSE <<>>)
        ELSE <<>>)
    \o (IF promptResponses.includePrettier THEN << <<"prettier", "^3.2.5">> >> ELSE <<>>)
    \o (IF useTsOf(promptResponses) /\ Truthy(promptResponses, "includeLocalFilters")
        THEN << <<"tsx", "^4.7.2">> >> ELSE <<>>)

\* the commands array of bin.ts:172-183
checkCommandsOf(promptResponses) ==
    (IF Truthy(promptResponses, "includeEslint") THEN << <<"eslint .">> >> ELSE <<>>)
    \o (IF useTsOf(promptResponses)
        THEN << <<"tsc">> >>
             \o (IF Truthy(promptResponses, "includeLocalFilters")
                 THEN << <<"tsc -p filters">> >> ELSE <<>>)
        ELSE <<>>)

packageScriptsOf(promptResponses) ==
    (IF promptResponses.includePrettier THEN << <<"fmt", <<"prettier . -w">> >> >> ELSE <<>>)
    \o (IF useTsOf(promptResponses) \/ Truthy(promptResponses, "includeEslint")
        THEN << <<"check", JoinWith(checkCommandsOf(promptResponses), <<" && ">>)>> >>
             \o (IF promptResponses.includePrettier
                 THEN << <<"fmt-check", <<"npm run fmt && npm run check">> >> >>
                 ELSE <<>>)
        ELSE <<>>)
    \o (IF useTsOf(promptResponses) /\ Truthy(promptResponses, "includeLocalFilters")
        THEN << <<"tsx", <<"tsx">> >> >> ELSE <<>>)

PackageJsonData(promptResponses) ==
    [packageJson |->
       [private |-> TRUE,
        type |-> "module",
        scripts |-> packageScriptsOf(promptResponses),
        devDependencies |-> packageDevDependenciesOf(promptResponses)]]

\* JSON.stringify drops parserOptions.project when it is undefined: the key
\* is then absent, written here as the empty sequence of pairs
EslintrcData(promptResponses) ==
    [eslintrc |->
       [env |-> [browser |-> TRUE, es2021 |-> TRUE],
        extends |-> <<"eslint:recommended">>,
        parserOptions |->
          << <<"ecmaVersion", <<"latest">> >>, <<"sourceType", <<"module">> >> >>
          \o (IF useTsOf(promptResponses)
              THEN << <<"project",
                        <<"./tsconfig.json">>
                        \o (IF Truthy(promptResponses, "includeLocalFilters")
                            THEN <<"./filters/tsconfig.json">> ELSE <<>>)>> >>
              ELSE <<>>),
        overrides |->
          <<[files |-> <<"*.cjs">>]>>
          \o (IF useTsOf(promptResponses) THEN <<[files |-> <<"*.ts">>]>> ELSE <<>>)]]

PrettierrcData == [prettierrc |-> "{}"]

TsconfigData ==
    [tsconfig |->
       [include |-> <<"./packs/BP/scripts">>,
        compilerOptions |->
          [paths |-> << <<"@/*", <<"./packs/*">> >> >>,
           forceConsistentCasingInFileNames |-> TRUE,
           strict |-> TRUE,
           target |-> "es2022",
           module |-> "es2022",
           moduleResolution |-> "bundler",
           noEmit |-> TRUE,
           skipLibCheck |-> TRUE]]]

FiltersTsconfigData ==
    [tsconfig |-> [extends |-> "../tsconfig.json", include |-> <<".">>]]

\* uuid.v4(): the n-th identifier the generator hands out in this run
uuidV4(stream, n) == stream[n]

bpUuidOf(stream) == uuidV4(stream, 1)
rpUuidOf(stream) == uuidV4(stream, 2)

bpDependenciesOf(promptResponses, stream) ==
    IF promptResponses.includeRp
    THEN <<[uuid |-> rpUuidOf(stream), version |-> <<1, 0, 0>>]>>
    ELSE <<>>

BpManifestData(promptResponses, stream) ==
    [manifest |->
       [format_version |-> 2,
        header |-> [name |-> "pack.name",
                    description |-> "pack.description",
                    min_engine_version |-> minEngineVersionOf(promptResponses),
                    uuid |-> bpUuidOf(stream),
                    version |-> <<1, 0, 0>>],
        modules |->
          <<[type |-> "data", uuid |-> uuidV4(stream, 3), version |-> <<1, 0, 0>>]>>
          \o (IF useScriptingOf(promptResponses)
              THEN <<[type |-> "script", language |-> "javascript",
                      uuid |-> uuidV4(stream, 4), entry |-> "scripts/__bundle.js",
                      version |-> <<1, 0, 0>>]>>
              ELSE <<>>),
        dependencies |-> bpDependenciesOf(promptResponses, stream)]]

\* a slip: the resource pack depends on its own identifier
rpDependenciesOf_Self(stream) ==
    <<[uuid |-> rpUuidOf(stream), version |-> <<1, 0, 0>>]>>

rpDependenciesOf(stream) ==
    <<[uuid |-> bpUuidOf(stream), version |-> <<1, 0, 0>>]>>

RpManifestData(promptResponses, stream) ==
    [manifest |->
       [format_version |-> 2,
        header |-> [name |-> "pack.name",
                    description |-> "pack.description",
                    min_engine_version |-> minEngineVersionOf(promptResponses),
                    uuid |-> rpUuidOf(stream),
                    version |-> <<1, 0, 0>>],
        modules |->
          <<[type |-> "resources",
             uuid |-> uuidV4(stream, IF useScriptingOf(promptResponses) THEN 5 ELSE 4),
             version |-> <<1, 0, 0>>]>>,
        dependencies |-> rpDependenciesOf(stream)]]

\* pack.name=<projectName>\npack.description=<projectName>
enUsLangContentOf(promptResponses) ==
    [lang |-> <<"pack.name=">> \o promptResponses.projectName
              \o <<"\npack.description=">> \o promptResponses.projectName]

languagesJsonContent == [languages |-> "[\"en_US\"]"]

IndexScriptData == [script |-> "console.log(\"Hello, Minecraft!\");"]

FiltersPackageJsonData == [packageJson |-> [private |-> TRUE, type |-> "module"]]

FiltersCommonTsData == [script |-> "export const TMP_DIR = \".regolith/tmp\";"]

ExampleFilterIndexData(promptResponses) ==
    [script |-> IF useTsOf(promptResponses)
                THEN "// NOTE: this script will **not** run relative to the .regolith/tmp directory.\n// Use the TMP_DIR constant from filters/common.ts to access it instead.\n\nconsole.log(\"Hello, World!\");"
                ELSE "console.log(\"Hello, World!\");"]

-----------------------------------------------------------------------------
(* The operations of initProject, in program order.                        *)

MakeDirOp(p) == [op |-> "makeDir", path |-> p]
WriteFileOp(p, data) == [op |-> "writeFile", path |-> p, data |-> data]

\* bin.ts:56-150: the base directory, .gitignore, config.json
BaseOps(promptResponses, basePath) ==
    << MakeDirOp(basePath),
       WriteFileOp(PathJoin(basePath, <<".gitignore">>), GitIgnoreData),
       WriteFileOp(PathJoin(basePath, <<"config.json">>),
                   ConfigJsonData(promptResponses, basePath)) >>

\* bin.ts:197-297: package.json, .eslintrc.cjs, .prettierrc, tsconfig.json
ToolingOps(promptResponses, basePath) ==
    << WriteFileOp(PathJoin(basePath, <<"package.json">>), PackageJsonData(promptResponses)) >>
    \o (IF Truthy(promptResponses, "includeEslint")
        THEN << WriteFileOp(PathJoin(basePath, <<".eslintrc.cjs">>),
                            EslintrcData(promptResponses)) >>
        ELSE <<>>)
    \o (IF promptResponses.includePrettier
        THEN << WriteFileOp(PathJoin(basePath, <<".prettierrc">>), PrettierrcData) >>
        ELSE <<>>)
    \o (IF useTsOf(promptResponses)
        THEN << WriteFileOp(PathJoin(basePath, <<"tsconfig.json">>), TsconfigData) >>
        ELSE <<>>)

packsPathOf(basePath) == PathJoin(basePath, <<"packs">>)
bpPathOf(basePath) == PathJoin(packsPathOf(basePath), <<"BP">>)
rpPathOf(basePath) == PathJoin(packsPathOf(basePath), <<"RP">>)
filtersPathOf(basePath) == PathJoin(basePath, <<"filters">>)

\* a slip: the two files of a texts directory are written before it is made
TextsOps_FilesFirst(promptResponses, packPath) ==
    LET textsPath == PathJoin(packPath, <<"texts">>)
    IN  << WriteFileOp(PathJoin(textsPath, <<"en_US.lang">>),
                       enUsLangContentOf(promptResponses)),
           WriteFileOp(PathJoin(textsPath, <<"languages.json">>), languagesJsonContent),
           MakeDirOp(textsPath) >>

\* bin.ts:356-366 and 404-411: a pack's texts directory
TextsOps(promptResponses, packPath) ==
    LET textsPath == PathJoin(packPath, <<"texts">>)
    IN  << MakeDirOp(textsPath),
           WriteFileOp(PathJoin(textsPath, <<"en_US.lang">>),
                       enUsLangContentOf(promptResponses)),
           WriteFileOp(PathJoin(textsPath, <<"languages.json">>), languagesJsonContent) >>

\* bin.ts:299-369: packs, packs/BP and what is in it, packs/data
BpOps(promptResponses, basePath, stream) ==
    LET bpPath == bpPathOf(basePath)
        bpScriptsPath == PathJoin(bpPath, <<"scripts">>)
    IN  << MakeDirOp(packsPathOf(basePath)),
           MakeDirOp(bpPath),
           WriteFileOp(PathJoin(bpPath, <<"manifest.json">>),
                       BpManifestData(promptResponses, stream)) >>
        \o (IF useScriptingOf(promptResponses)
            THEN << MakeDirOp(bpScriptsPath),
                    WriteFileOp(PathJoin(bpScriptsPath, <<indexScriptNameOf(promptResponses)>>),
                                IndexScriptData) >>
            ELSE <<>>)
        \o TextsOps(promptResponses, bpPath)
        \o << MakeDirOp(PathJoin(packsPathOf(basePath), <<"data">>)) >>

\* bin.ts:413-461: the local filters directory
FiltersOps(promptResponses, basePath) ==
    LET filtersPath == filtersPathOf(basePath)
        exampleFilterPath == PathJoin(filtersPath, <<"example_filter">>)
    IN  << MakeDirOp(filtersPath),
           WriteFileOp(PathJoin(filtersPath, <<"package.json">>), FiltersPackageJsonData) >>
        \o (IF useTsOf(promptResponses)
            THEN << WriteFileOp(PathJoin(filtersPath, <<"tsconfig.json">>), FiltersTsconfigData),
                    WriteFileOp(PathJoin(filtersPath, <<"common.ts">>), FiltersCommonTsData) >>
            ELSE <<>>)
        \o << MakeDirOp(exampleFilterPath),
              WriteFileOp(PathJoin(exampleFilterPath, <<indexScriptNameOf(promptResponses)>>),
                          ExampleFilterIndexData(promptResponses)) >>

\* bin.ts:371-462: packs/RP and what is in it; the filters block is nested
\* inside the includeRp block
RpOps(promptResponses, basePath, stream) ==
    IF promptResponses.includeRp
    THEN << MakeDirOp(rpPathOf(basePath)),
            WriteFileOp(PathJoin(rpPathOf(basePath), <<"manifest.json">>),
                        RpManifestData(promptResponses, stream)) >>
         \o TextsOps(promptResponses, rpPathOf(basePath))
         \o (IF Truthy(promptResponses, "includeLocalFilters")
             THEN FiltersOps(promptResponses, basePath)
             ELSE <<>>)
    ELSE <<>>

\* every makeDir and writeFile call of initProject, in the order of the calls
InitProjectOps(promptResponses, stream) ==
    LET basePath == basePathOf(promptResponses.projectName)
    IN  BaseOps(promptResponses, basePath)
        \o ToolingOps(promptResponses, basePath)
        \o BpOps(promptResponses, basePath, stream)
        \o RpOps(promptResponses, basePath, stream)

-----------------------------------------------------------------------------
(* Logging (log.ts) and the two helpers of initProject.                    *)

\* log.makingDir / log.writingFile / log.success / log.error: one line each
InfoMakingDir(p) == [level |-> "info", text |-> "making directory", path |-> p]
InfoWritingFile(p) == [level |-> "info", text |-> "writing file", path |-> p]
SuccessLine(text, p) == [level |-> "success", text |-> text, path |-> p]
ErrorLine(text, p) == [level |-> "error", text |-> text, path |-> p]

\* A fault the environment injects into the at-th file-system call of the
\* run (permissions, a full disk); at = 0 injects none.  A write that runs
\* out of space leaves the file created, without its data.
NoFault == [at |-> 0, code |-> "EACCES"]
TruncatedData == [truncated |-> TRUE]

FaultyWrite(fsys, p, code) ==
    Only({ IF code = "ENOSPC" /\ l[1] = "ok" /\ l[2] \notin fsys.dirs
           THEN [fsys EXCEPT !.files =
                    {f \in @ : f[1] # l[2]} \cup {<<l[2], TruncatedData>>}]
           ELSE fsys :
           l \in {Locate(fsys, p)} })

\* a slip: makeDir creates the directory in a dry run too
makeDir_IgnoresDry(st, p, dry_, fault, n) ==
    LET logged == [st EXCEPT !.log = Append(@, InfoMakingDir(p))]
    IN  IF fault.at = n /\ ~dry_ THEN [logged EXCEPT !.thrown = <<fault.code, p>>]
        ELSE Only({ IF r[1] = "ok" THEN [logged EXCEPT !.fs = r[2]]
                    ELSE [logged EXCEPT !.thrown = <<r[1], p>>] :
                    r \in {mkdirSync(st.fs, p)} })

\* function makeDir of initProject.  st = [fs, log, thrown]; thrown is <<>>
\* or the <<code, path>> of the exception that left initProject.
makeDir(st, p, dry, fault, n) ==
    LET logged == [st EXCEPT !.log = Append(@, InfoMakingDir(p))]
    IN  IF dry THEN logged
        ELSE IF fault.at = n THEN [logged EXCEPT !.thrown = <<fault.code, p>>]
        ELSE Only({ IF r[1] = "ok" THEN [logged EXCEPT !.fs = r[2]]
                    ELSE [logged EXCEPT !.thrown = <<r[1], p>>] :
                    r \in {mkdirSync(st.fs, p)} })

\* a slip: writeFile swallows the error of a failed write
writeFile_Swallows(st, p, data, dry_, fault, n) ==
    LET logged == [st EXCEPT !.log = Append(@, InfoWritingFile(p))]
    IN  IF dry_ THEN logged
        ELSE IF fault.at = n THEN logged
        ELSE Only({ IF r[1] = "ok" THEN [logged EXCEPT !.fs = r[2]] ELSE logged :
                    r \in {writeFileSync(st.fs, p, data)} })

\* function writeFile of initProject
writeFile(st, p, data, dry, fault, n) ==
    LET logged == [st EXCEPT !.log = Append(@, InfoWritingFile(p))]
    IN  IF dry THEN logged
        ELSE IF fault.at = n
             THEN [logged EXCEPT !.thrown = <<fault.code, p>>,
                                 !.fs = FaultyWrite(st.fs, p, fault.code)]
        ELSE Only({ IF r[1] = "ok" THEN [logged EXCEPT !.fs = r[2]]
                    ELSE [logged EXCEPT !.thrown = <<r[1], p>>] :
                    r \in {writeFileSync(st.fs, p, data)} })

\* the calls from the n-th on, until one throws
RECURSIVE RunOps(_, _, _, _, _)
RunOps(ops, n, st, dry, fault) ==
    IF n > Len(ops) \/ st.thrown # <<>> THEN st
    ELSE LET o == ops[n]
             st2 == IF o.op = "makeDir"
                    THEN makeDir(st, o.path, dry, fault, n)
                    ELSE writeFile(st, o.path, o.data, dry, fault, n)
         IN  Only({RunOps(ops, n + 1, s2, dry, fault) : s2 \in {st2}})

CwdPath == <<"/", "w">>

\* path.resolve(p) for a non-empty p
PathResolve(p) ==
    LET n == Normalize(IF p[1] = Sep THEN p ELSE CwdPath \o <<Sep>> \o p)
    IN  IF Len(n) > 1 /\ n[Len(n)] = Sep THEN SubSeq(n, 1, Len(n) - 1) ELSE n

\* initProject(promptResponses, options) followed by the catch block of the
\* command's action: [fs, log, exitCode] when the command is over
initProject(promptResponses, dry, fsys, lg, stream, fault) ==
    LET basePath == basePathOf(promptResponses.projectName)
    IN  IF isReservedName(basePath)
        THEN [fs |-> fsys,
              log |-> Append(lg, ErrorLine("is an illegal file name. Try giving your add-on another name", basePath)),
              exitCode |-> 1]
        ELSE Only({ IF st.thrown # <<>>
                    THEN [fs |-> st.fs,
                          log |-> Append(st.log, ErrorLine(st.thrown[1], st.thrown[2])),
                          exitCode |-> 1]
                    ELSE [fs |-> st.fs,
                          log |-> Append(st.log,
                                         SuccessLine("created a new add-on at",
                                                     PathResolve(basePath)))
                                  \o (IF dry THEN <<SuccessLine("completed dry run", <<>>)>>
                                      ELSE <<>>),
                          exitCode |-> 0] :
                    st \in { RunOps(ops, 1, [fs |-> fsys, log |-> lg, thrown |-> <<>>],
                                    dry, fault) :
                             ops \in {InitProjectOps(promptResponses, stream)} } })

-----------------------------------------------------------------------------
(* The command: the prompts of inquirer.prompt in their order, then        *)
(* initProject inside try/catch.                                           *)

VARIABLES
    pc,               \* the prompt being shown, "initProject", or "exited"
    promptResponses,  \* the answers given so far
    typed,            \* the last line typed at a validated input prompt
    promptError,      \* what validate made of it: "true" or the message shown
    dry,              \* options.dry
    fs,               \* the file system
    log,              \* the lines logged so far
    exitCode          \* the exit status of the process

vars == <<pc, promptResponses, typed, promptError, dry, fs, log, exitCode>>

NoAnswers == [k \in {} |-> TRUE]

EmptyFs == [dirs |-> {<<>>, Cwd}, files |-> {}]

\* The working directory before the run: empty, or already holding a
\* directory "a" and a directory "My" with a file in it.
InitialFileSystems ==
    { EmptyFs,
      [dirs |-> {<<>>, Cwd, Append(Cwd, <<"a">>), Append(Cwd, <<"M", "y">>)},
       files |-> {<<Cwd \o << <<"M", "y">>, <<"notes.txt">> >>, [text |-> "notes"]>>}] }

Init ==
    /\ pc = "projectName"
    /\ promptResponses = NoAnswers
    /\ typed = <<>>
    /\ promptError = "true"
    /\ dry \in BOOLEAN
    /\ fs \in InitialFileSystems
    /\ log = <<>>
    /\ exitCode = 0

Answered(key, value, nextPc) ==
    /\ promptResponses' = promptResponses @@ (key :> value)
    /\ pc' = nextPc

\* An input prompt with validate: an invalid line shows the message and the
\* prompt stays; a valid one is the answer.
AnswerProjectName(Inputs) ==
    /\ pc = "projectName"
    /\ \E input \in Inputs :
          /\ typed' = input
          /\ promptError' = validateProjectName(input)
          /\ IF validateProjectName(input) = "true"
             THEN Answered("projectName", input, "includeRp")
             ELSE UNCHANGED <<promptResponses, pc>>
    /\ UNCHANGED <<dry, fs, log, exitCode>>

AnswerIncludeRp(Inputs) ==
    /\ pc = "includeRp"
    /\ \E input \in Inputs : Answered("includeRp", input, "targetVersion")
    /\ UNCHANGED <<typed, promptError, dry, fs, log, exitCode>>

AnswerTargetVersion(Inputs) ==
    /\ pc = "targetVersion"
    /\ \E input \in Inputs :
          /\ typed' = input
          /\ promptError' = validateTargetVersion(input)
          /\ IF validateTargetVersion(input) = "true"
             THEN Answered("targetVersion", input, "scriptingLanguage")
             ELSE UNCHANGED <<promptResponses, pc>>
    /\ UNCHANGED <<dry, fs, log, exitCode>>

\* the two prompts after it are asked only when the answer is not "none"
AnswerScriptingLanguage(Inputs) ==
    /\ pc = "scriptingLanguage"
    /\ \E input \in Inputs :
          Answered("scriptingLanguage", input,
                   IF input # "none" THEN "includeLocalFilters" ELSE "includePrettier")
    /\ UNCHANGED <<typed, promptError, dry, fs, log, exitCode>>

AnswerIncludeLocalFilters(Inputs) ==
    /\ pc = "includeLocalFilters"
    /\ \E input \in Inputs : Answered("includeLocalFilters", input, "includeEslint")
    /\ UNCHANGED <<typed, promptError, dry, fs, log, exitCode>>

AnswerIncludeEslint(Inputs) ==
    /\ pc = "includeEslint"
    /\ \E input \in Inputs : Answered("includeEslint", input, "includePrettier")
    /\ UNCHANGED <<typed, promptError, dry, fs, log, exitCode>>

AnswerIncludePrettier(Inputs) ==
    /\ pc = "includePrettier"
    /\ \E input \in Inputs : Answered("includePrettier", input, "initProject")
    /\ UNCHANGED <<typed, promptError, dry, fs, log, exitCode>>

\* the identifiers uuid.v4() hands out in one run, in the order of the calls
UuidStreams ==
    { <<"u1", "u2", "u3", "u4", "u5">>,
      <<"u7", "u6", "u9", "u8", "u6">>,
      <<"u1", "u1", "u1", "u1", "u1">> }

\* the faults the environment may inject into a run: none in a dry run,
\* which makes no file-system call
FaultsFor(responses, isDry, Codes) ==
    {NoFault}
    \cup (IF isDry THEN {}
          ELSE [at : 1..Len(InitProjectOps(responses, <<"u1", "u2", "u3", "u4", "u5">>)),
                code : Codes])

\* try { initProject(promptResponses, options) } catch { log.error; process.exit(1) }
RunInitProject(Streams, Codes) ==
    /\ pc = "initProject"
    /\ \E stream \in Streams, fault \in FaultsFor(promptResponses, dry, Codes) :
          \E r \in {initProject(promptResponses, dry, fs, log, stream, fault)} :
              /\ fs' = r.fs
              /\ log' = r.log
              /\ exitCode' = r.exitCode
    /\ pc' = "exited"
    /\ UNCHANGED <<promptResponses, typed, promptError, dry>>

-----------------------------------------------------------------------------
(* The command over a few answers of every kind, with injected faults.     *)

ProjectNameInputs ==
    { <<"M", "y">>, <<"a", "/", "b">>, <<"a", "/", ".", ".", "/", "b">>,
      <<"C", "O", "N">>, <<"M", "y", ".">>, <<>> }

TargetVersionInputs ==
    { <<"1", ".", "2", "0", ".", "0">>,
      <<"1", ".", "2", "0", ".", "0", ".", "1">>,
      <<"1", ".", "2", "0">> }

ScriptingLanguages == {"js", "ts", "none"}

FaultCodes == {"EACCES", "ENOSPC"}

Next ==
    \/ AnswerProjectName(ProjectNameInputs)
    \/ AnswerIncludeRp(BOOLEAN)
    \/ AnswerTargetVersion(TargetVersionInputs)
    \/ AnswerScriptingLanguage(ScriptingLanguages)
    \/ AnswerIncludeLocalFilters(BOOLEAN)
    \/ AnswerIncludeEslint(BOOLEAN)
    \/ AnswerIncludePrettier(BOOLEAN)
    \/ RunInitProject(UuidStreams, FaultCodes)

Spec == Init /\ [][Next]_vars

-----------------------------------------------------------------------------
(* The command over many project names, the other answers fixed.           *)

MaxNameParts == 2

NameTokens ==
    { <<"C", "O", "N">>, <<"c", "o", "n">>, <<"N", "u", "l">>, <<"A", "U", "X">>,
      <<"P", "R", "N">>, <<"C", "O", "M", "1">>, <<"L", "P", "T", "9">>,
      <<"T", "E", "N", "T">>, <<"M", "y">>, <<"P", "a", "c", "k">>,
      <<"/">>, <<".">>, <<":">>, <<" ">>, IllegalCharsPattern }

\* the concatenations of 1..MaxNameParts tokens
NameInputs ==
    UNION { { JoinWith(parts, <<>>) : parts \in [1..n -> NameTokens] } : n \in 1..MaxNameParts }

NextName ==
    \/ AnswerProjectName(NameInputs)
    \/ AnswerIncludeRp({FALSE})
    \/ AnswerTargetVersion({<<"1", ".", "2", "0", ".", "0">>})
    \/ AnswerScriptingLanguage({"none"})
    \/ AnswerIncludePrettier({FALSE})
    \/ RunInitProject({<<"u1", "u2", "u3", "u4", "u5">>}, {})

SpecName == Init /\ [][NextName]_vars

-----------------------------------------------------------------------------
(* The targetVersion prompt over many lines.                               *)

MaxVersionParts == 5

PlainComponents == { <<"1">>, <<"2", "0">> }

\* empty, negative, exponent, hexadecimal, blank, not a number
OddComponents ==
    { <<>>, <<"-", "1">>, <<"1", "e", "5">>, <<"0", "x", "1", "f">>, <<" ">>, <<"1", "a">> }

\* 1..MaxVersionParts components joined by ".", at most one of them odd
VersionInputs ==
    UNION { { JoinWith(IF at = 0 THEN parts ELSE [parts EXCEPT ![at] = odd], <<".">>) :
              parts \in [1..n -> PlainComponents], at \in 0..n, odd \in OddComponents } :
            n \in 1..MaxVersionParts }

NextVersion ==
    \/ AnswerProjectName({<<"M", "y">>})
    \/ AnswerIncludeRp({TRUE})
    \/ AnswerTargetVersion(VersionInputs)

SpecVersion == Init /\ [][NextVersion]_vars

-----------------------------------------------------------------------------
(* What the claims speak of.                                               *)

Exited == pc = "exited"

\* initProject returned normally in a run that was not a dry run
Done == pc = "exited" /\ exitCode = 0 /\ ~dry

\* the run ended in the catch block because of the reserved-name test
RejectedAsIllegalName ==
    /\ pc = "exited"
    /\ exitCode = 1
    /\ Len(log) = 1
    /\ log[1].level = "error"
    /\ log[1].text = "is an illegal file name. Try giving your add-on another name"

basePath == basePathOf(promptResponses.projectName)

IsDirAt(fsys, p) ==
    LET l == Locate(fsys, p) IN l[1] = "ok" /\ l[2] \in fsys.dirs

\* the data of the file a path names: a set with no or one element
DataAt(fsys, p) ==
    LET l == Locate(fsys, p)
    IN  IF l[1] = "ok" THEN {f[2] : f \in {g \in fsys.files : g[1] = l[2]}} ELSE {}

IsFileAt(fsys, p) == DataAt(fsys, p) # {}

\* the makeDir and writeFile calls a log reports, in order
ReportedOps(lg) ==
    LET info == SelectSeq(lg, LAMBDA e : e.level = "info")
    IN  [i \in 1..Len(info) |->
           [op |-> IF info[i].text = "making directory" THEN "makeDir" ELSE "writeFile",
            path |-> info[i].path]]

OpsSummary(ops) == [i \in 1..Len(ops) |-> [op |-> ops[i].op, path |-> ops[i].path]]

ScriptValue(scripts, name) ==
    {scripts[i][2] : i \in {j \in 1..Len(scripts) : scripts[j][1] = name}}

-----------------------------------------------------------------------------
(* C1: the local-filters group.                                            *)

FiltersGroupPresent ==
    LET filtersPath == filtersPathOf(basePath)
        exampleFilterPath == PathJoin(filtersPath, <<"example_filter">>)
    IN  /\ IsDirAt(fs, filtersPath)
        /\ IsFileAt(fs, PathJoin(filtersPath, <<"package.json">>))
        /\ IsDirAt(fs, exampleFilterPath)
        /\ IsFileAt(fs, PathJoin(exampleFilterPath, <<indexScriptNameOf(promptResponses)>>))
        /\ useTsOf(promptResponses) =>
              /\ IsFileAt(fs, PathJoin(filtersPath, <<"tsconfig.json">>))
              /\ IsFileAt(fs, PathJoin(filtersPath, <<"common.ts">>))

FiltersGroupAbsent ==
    LET filtersPath == filtersPathOf(basePath)
    IN  /\ ~IsDirAt(fs, filtersPath)
        /\ ~IsFileAt(fs, PathJoin(filtersPath, <<"package.json">>))

\* C1 (as claimed): after a successful run the local-filters group (the
\* filters directory, filters/package.json, filters/example_filter/ with its
\* index stub, and for TypeScript filters/tsconfig.json and
\* filters/common.ts) exists exactly when includeLocalFilters is true and
\* scriptingLanguage is not "none", whatever includeRp is.
C1_FiltersGroupIffLocalFilters ==
    Done =>
       IF Truthy(promptResponses, "includeLocalFilters") /\ useScriptingOf(promptResponses)
       THEN FiltersGroupPresent
       ELSE FiltersGroupAbsent

-----------------------------------------------------------------------------
(* C2: the two manifests refer to each other.                              *)

BpManifestFile == DataAt(fs, PathJoin(bpPathOf(basePath), <<"manifest.json">>))
RpManifestFile == DataAt(fs, PathJoin(rpPathOf(basePath), <<"manifest.json">>))

\* C2: after a successful run with includeRp, the resource-pack manifest has
\* one dependency, whose uuid is the behavior-pack manifest's header uuid,
\* and the behavior-pack manifest has exactly one dependency, whose uuid is
\* the resource-pack manifest's header uuid; without includeRp the
\* behavior-pack manifest has no dependency and no resource-pack manifest is
\* written or reported.
C2_ManifestCrossReference ==
    Done =>
       /\ BpManifestFile # {}
       /\ \A bp \in BpManifestFile :
             IF promptResponses.includeRp
             THEN /\ RpManifestFile # {}
                  /\ \A rp \in RpManifestFile :
                        /\ Len(rp.manifest.dependencies) = 1
                        /\ rp.manifest.dependencies[1].uuid = bp.manifest.header.uuid
                        /\ Len(bp.manifest.dependencies) = 1
                        /\ bp.manifest.dependencies[1].uuid = rp.manifest.header.uuid
             ELSE /\ bp.manifest.dependencies = <<>>
                  /\ RpManifestFile = {}
                  /\ \A i \in 1..Len(log) :
                        log[i].path # PathJoin(rpPathOf(basePath), <<"manifest.json">>)

\* a successful run with a resource pack whose two pack identifiers differ
C2_Witness ==
    /\ Done
    /\ promptResponses.includeRp
    /\ \E bp \in BpManifestFile, rp \in RpManifestFile :
          bp.manifest.header.uuid # rp.manifest.header.uuid

-----------------------------------------------------------------------------
(* C3: the base directory name.                                            *)

IllegalChars == {"/", "\\", ":", "*", "?", "\"", "<", ">", "|", "."}

\* the name with every single illegal character replaced by "-"
SanitizedName(name) ==
    [i \in 1..Len(name) |-> IF name[i] \in IllegalChars THEN "-" ELSE name[i]]

\* C3 (as claimed): the base directory name initProject computes (the path
\* of its first log line) is the project name with every single occurrence
\* of / \ : * ? " < > | . replaced by "-", so it holds none of them.
C3_BasePathSanitized ==
    (pc = "exited" /\ Len(log) > 0) =>
       /\ log[1].path = SanitizedName(promptResponses.projectName)
       /\ \A i \in 1..Len(log[1].path) : log[1].path[i] \notin IllegalChars

-----------------------------------------------------------------------------
(* C4: reserved device names.                                              *)

LowerLetters ==
    <<"a", "b", "c", "d", "e", "f", "g", "h", "i", "j", "k", "l", "m",
      "n", "o", "p", "q", "r", "s", "t", "u", "v", "w", "x", "y", "z">>
UpperLetters ==
    <<"A", "B", "C", "D", "E", "F", "G", "H", "I", "J", "K", "L", "M",
      "N", "O", "P", "Q", "R", "S", "T", "U", "V", "W", "X", "Y", "Z">>

ToUpperCase(s) ==
    [i \in 1..Len(s) |->
       IF \E k \in 1..26 : LowerLetters[k] = s[i]
       THEN UpperLetters[CHOOSE k \in 1..26 : LowerLetters[k] = s[i]]
       ELSE s[i]]

ReservedDeviceNames ==
    { <<"C", "O", "N">>, <<"P", "R", "N">>, <<"A", "U", "X">>, <<"N", "U", "L">> }
    \cup { <<"C", "O", "M", d>> : d \in DigitChars1to9 }
    \cup { <<"L", "P", "T", d>> : d \in DigitChars1to9 }

\* C4 (as claimed): initProject ends with the "illegal file name" error
\* exactly when the whole base directory name, compared without regard to
\* letter case, is one of CON, PRN, AUX, NUL, COM1..COM9, LPT1..LPT9.
C4_RejectsExactlyReservedNames ==
    pc = "exited" =>
       (RejectedAsIllegalName <=> ToUpperCase(basePath) \in ReservedDeviceNames)

-----------------------------------------------------------------------------
(* C5: the targetVersion validator.                                        *)

\* 3 or 4 components, each a non-empty string of decimal digits
WellFormedVersion(input) ==
    LET c == Split(input, ".")
    IN  /\ Len(c) \in {3, 4}
        /\ \A i \in 1..Len(c) : Len(c[i]) > 0 /\ AllIn(c[i], DecimalDigits)

\* C5 (as claimed): the validator accepts a line exactly when it has 3 or 4
\* dot-separated components that are all non-negative integer numerals: a
\* rejected line is not of that shape, and an accepted one is.
C5_AcceptsExactlyWellFormed ==
    /\ (pc = "targetVersion" /\ promptError # "true") => ~WellFormedVersion(typed)
    /\ "targetVersion" \in DOMAIN promptResponses =>
          WellFormedVersion(promptResponses.targetVersion)

-----------------------------------------------------------------------------
(* C6: config.json without scripting.                                      *)

ConfigJsonFile == DataAt(fs, PathJoin(basePath, <<"config.json">>))

\* C6 (as claimed): with scriptingLanguage "none", config.json has an empty
\* filterDefinitions map and an empty filters list in the default and in
\* the prod profile.
C6_NoScriptingAllFiltersEmpty ==
    (Done /\ promptResponses.scriptingLanguage = "none") =>
       /\ ConfigJsonFile # {}
       /\ \A c \in ConfigJsonFile :
             /\ c.configJson.regolith.filterDefinitions = <<>>
             /\ c.configJson.regolith.profiles.default.filters = <<>>
             /\ c.configJson.regolith.profiles.prod.filters = <<>>

\* C6 (amended): with scriptingLanguage "none", config.json has an empty
\* filterDefinitions map, an empty filters list in the default profile, and
\* in the prod profile a filters list whose only entry is the reference to
\* the default profile: no profile runs a filter.
C6_NoScriptingNoFilterRuns ==
    (Done /\ promptResponses.scriptingLanguage = "none") =>
       /\ ConfigJsonFile # {}
       /\ \A c \in ConfigJsonFile :
             /\ c.configJson.regolith.filterDefinitions = <<>>
             /\ c.configJson.regolith.profiles.default.filters = <<>>
             /\ c.configJson.regolith.profiles.prod.filters = <<[profile |-> "default"]>>

C6_Witness ==
    /\ Done
    /\ promptResponses.scriptingLanguage = "none"
    /\ ConfigJsonFile # {}

-----------------------------------------------------------------------------
(* C7: parent before child.                                                *)

\* The directory a path names, as its segments after "." and ".." are
\* resolved; two paths with the same segments name the same directory.
DirOf(p) ==
    [absolute |-> Len(p) > 0 /\ p[1] = Sep,
     segments |-> NormalizeSegments(Split(p, Sep), <<>>, ~(Len(p) > 0 /\ p[1] = Sep))]

ParentDirOf(p) ==
    LET d == DirOf(p)
    IN  [d EXCEPT !.segments = SubSeq(@, 1, Len(@) - 1)]

ParentMadeBefore(ops, i) ==
    \E j \in 1..(i - 1) :
       /\ ops[j].op = "makeDir"
       /\ DirOf(ops[j].path) = ParentDirOf(ops[i].path)

\* C7: in the sequence of makeDir and writeFile calls of any run, every call
\* but the first (the base directory) comes after a makeDir of its path's
\* parent directory; and no call other than the first ever fails because a
\* directory on its path does not exist.
C7_ParentBeforeChild ==
    pc = "exited" =>
       LET ops == ReportedOps(log)
       IN  /\ \A i \in 2..Len(ops) : ParentMadeBefore(ops, i)
           /\ (Len(ops) > 1 /\ ~dry) => log[Len(log)].text \notin {"ENOENT", "ENOTDIR"}

\* a complete run whose base directory is named through another directory
C7_Witness ==
    /\ Done
    /\ promptResponses.projectName = <<"a", "/", ".", ".", "/", "b">>
    /\ promptResponses.includeRp
    /\ Truthy(promptResponses, "includeLocalFilters")
    /\ Len(ReportedOps(log)) >= 20
    /\ FiltersGroupPresent

-----------------------------------------------------------------------------
(* C8: the dry run.                                                        *)

\* C8: a dry run leaves the file system as it was, and the calls it reports
\* are, in the same order, the calls a successful run that is not dry
\* reports for the same answers: both report every call of initProject.
C8_DryRunReportsOnly ==
    [][ (pc = "initProject" /\ pc' = "exited") =>
           /\ dry => fs' = fs
           /\ exitCode' = 0 =>
                 ReportedOps(log') =
                    OpsSummary(InitProjectOps(promptResponses, <<"u1", "u2", "u3", "u4", "u5">>))
      ]_vars

\* a dry run that reported a full plan, resource pack and filters included
C8_Witness ==
    /\ pc = "exited"
    /\ dry
    /\ exitCode = 0
    /\ promptResponses.includeRp
    /\ Len(ReportedOps(log)) >= 20
    /\ log[Len(log)].text = "completed dry run"

-----------------------------------------------------------------------------
(* C9: a failing call.                                                     *)

\* the file system after calls that all succeed
RECURSIVE Replay(_, _)
Replay(fsys, ops) ==
    IF Len(ops) = 0 THEN fsys
    ELSE LET r == IF Head(ops).op = "makeDir"
                  THEN mkdirSync(fsys, Head(ops).path)
                  ELSE writeFileSync(fsys, Head(ops).path, Head(ops).data)
         IN  IF r[1] = "ok" THEN Replay(r[2], Tail(ops)) ELSE fsys

\* the two file systems hold the same files, but possibly for the one path
SameFilesBut(fsys1, fsys2, p) ==
    LET l == Locate(fsys2, p)
        Others(fsys) == {f \in fsys.files : l[1] # "ok" \/ f[1] # l[2]}
    IN  Others(fsys1) = Others(fsys2)

\* what a call that succeeded leaves: the directory, or the file with its data
EffectInPlace(fsys, o) ==
    IF o.op = "makeDir" THEN IsDirAt(fsys, o.path) ELSE DataAt(fsys, o.path) = {o.data}

\* the run ended in the catch block, the error being its last line
EndedWithError(lg, code) ==
    /\ code = 1
    /\ lg[Len(lg)].level = "error"
    /\ \A i \in 1..Len(lg) : lg[i].level # "success"

\* C9: in a run that is not dry, a makeDir or writeFile call that fails is
\* the last call reported: the log holds the reports of the calls up to it
\* and then the error and nothing else (no later call, no success message),
\* the directories and files of the calls before it are in place, nothing
\* of a later call exists, and the process exits with status 1.
C9_FailureStopsTheRun ==
    [][ (pc = "initProject" /\ pc' = "exited" /\ ~dry /\ ~isReservedName(basePath)) =>
           \E stream \in UuidStreams :
              LET ops == InitProjectOps(promptResponses, stream)
                  k == Len(ReportedOps(log'))
              IN  /\ k \in 1..Len(ops)
                  /\ ReportedOps(log') = OpsSummary(SubSeq(ops, 1, k))
                  /\ \A i \in 1..k :
                        ~EffectInPlace(fs', ops[i]) => (i = k /\ EndedWithError(log', exitCode'))
                  /\ exitCode' # 0 =>
                        /\ EndedWithError(log', exitCode')
                        /\ Len(log') = k + 1
                        /\ log'[k + 1].path = ops[k].path
                        /\ LET before == Replay(fs, SubSeq(ops, 1, k - 1))
                           IN  /\ fs'.dirs = before.dirs
                               /\ SameFilesBut(fs', before, ops[k].path)
      ]_vars

\* a run that failed at its tenth call or later and left what it had made
C9_Witness ==
    /\ pc = "exited"
    /\ ~dry
    /\ exitCode = 1
    /\ Len(log) >= 11
    /\ log[Len(log)].level = "error"
    /\ IsDirAt(fs, bpPathOf(basePath))
    /\ IsFileAt(fs, PathJoin(basePath, <<"config.json">>))

-----------------------------------------------------------------------------
(* C10: the check script of package.json.                                  *)

PackageJsonFile == DataAt(fs, PathJoin(basePath, <<"package.json">>))

\* the check script as claimed: "tsc -p filters" only when
\* filters/tsconfig.json was written
ClaimedCheckCommands ==
    (IF Truthy(promptResponses, "includeEslint") THEN << <<"eslint .">> >> ELSE <<>>)
    \o (IF useTsOf(promptResponses) THEN << <<"tsc">> >> ELSE <<>>)
    \o (IF /\ useTsOf(promptResponses)
           /\ IsFileAt(fs, PathJoin(filtersPathOf(basePath), <<"tsconfig.json">>))
        THEN << <<"tsc -p filters">> >> ELSE <<>>)

\* C10 (as claimed): package.json has a check script exactly when the
\* language is TypeScript or ESLint is included, and its value is the
\* " && "-joined sequence of "eslint ." (with ESLint), "tsc" (with
\* TypeScript) and "tsc -p filters" (with TypeScript, when
\* filters/tsconfig.json is written).
C10_CheckScript ==
    Done =>
       /\ PackageJsonFile # {}
       /\ \A pj \in PackageJsonFile :
             IF useTsOf(promptResponses) \/ Truthy(promptResponses, "includeEslint")
             THEN ScriptValue(pj.packageJson.scripts, "check")
                     = {JoinWith(ClaimedCheckCommands, <<" && ">>)}
             ELSE ScriptValue(pj.packageJson.scripts, "check") = {}

=============================================================================
